---- MODULE Spec2Model ----
(***************************************************************************)
(* Model of clippybot (src/src/clippybot/__main__.py): the guard           *)
(* decorators, the chat handlers, the shared bot state (BOT_ENABLE,        *)
(* IGNORE_USERS, IGNORE_USERS_LCK) and the startup / shutdown path of      *)
(* amain.                                                                  *)
(*                                                                         *)
(* Handlers are coroutines run by the chat thread's event loop.  A step of *)
(* the model is the code a coroutine runs between two suspensions: from    *)
(* the call up to its first await on the transport (a reply, the user      *)
(* lookup), or from the return of an await to the end.  A reply is counted *)
(* as sent when the handler calls reply(); the code after a handler's last *)
(* reply (nothing, or the raise of a guard) is folded into the same step.  *)
(* The main thread runs amain: load, start, the busy loop, and the finally *)
(* block that saves the ignore list.                                       *)
(***************************************************************************)
EXTENDS Naturals, Sequences, FiniteSets, Bags

VARIABLES
    BOT_ENABLE,        \* threading.Event: TRUE when set
    IGNORE_USERS,      \* list of user ids
    IGNORE_USERS_LCK,  \* threading.Lock: TRUE when locked
    tasks,             \* bag of handler coroutines suspended before their end
    hung,              \* the chat thread is blocked inside Lock.acquire()
    main,              \* position of the main thread in amain
    file,              \* the ignore-users config file
    saves,             \* number of completed save_ignore_users calls
    writer,            \* the last write of BOT_ENABLE: "set" or "clear" (observation)
    last               \* record of the latest handler step (observation)

vars == <<BOT_ENABLE, IGNORE_USERS, IGNORE_USERS_LCK, tasks, hung, main, file, saves, writer, last>>

----------------------------------------------------------------------------
(* Bounds *)

\* longest ignore list the model lets on_ignore build
MaxIgnore == 3
\* most handler coroutines suspended at the same time
MaxTasks == 2

----------------------------------------------------------------------------
(* Inputs *)

Users == {"u1", "u2"}

\* what user_is_mod reads of a ChatUser: the broadcaster badge and the mod flag
Roles == {"broadcaster", "mod", "viewer"}

\* chat.set_prefix("!c ")
Prefix == <<"!", "c", " ">>

\* the command names registered with chat.register_command
CommandNames ==
    [on_about |-> <<"a", "b", "o", "u", "t">>,
     on_list |-> <<"l", "i", "s", "t">>,
     on_ignore |-> <<"i", "g", "n", "o", "r", "e">>,
     on_listen |-> <<"l", "i", "s", "t", "e", "n">>,
     on_enable |-> <<"e", "n", "a", "b", "l", "e">>,
     on_disable |-> <<"d", "i", "s", "a", "b", "l", "e">>]

\* the text of the chat line that invokes a command
CommandLine(handler) == Prefix \o CommandNames[handler]

\* message texts, as sequences of characters
Texts ==
    { <<"h", "i">>,                                  \* a known word
      <<"t", "e", "h">>,                             \* unknown, has a candidate
      <<"z", "q">>,                                  \* unknown, no candidate
      <<"t", "e", "h", " ", "z", "q">>,              \* candidate + no candidate
      <<"h", "i", " ", " ", "h", "i">>,              \* two spaces: an empty token
      <<"!", "t", "e", "h">>,                        \* starts with "!", no command
      <<"!", "c", " ", "t", "e", "h">> }             \* the prefix + a misspelling

\* SPELLCHECKER's dictionary: the words it knows
KnownWords == { <<"h", "i">>, <<"t", "h", "e">> }

\* SPELLCHECKER.correction: the best candidate of the words that have one
Candidates ==
    [w \in { <<"t", "e", "h">>, <<"!", "t", "e", "h">>, <<"!", "c">>, <<>> } |->
        IF w = <<>> \/ w = <<"!", "c">> THEN <<"a">> ELSE <<"t", "h", "e">>]

----------------------------------------------------------------------------
(* Python primitives *)

\* x in list
Contains(list, x) == \E i \in 1..Len(list) : list[i] = x

\* list.remove(x): drops the first occurrence of x (x is in the list)
ListRemove(list, x) ==
    LET i == CHOOSE k \in 1..Len(list) :
                 /\ list[k] = x
                 /\ \A j \in 1..(k - 1) : list[j] # x
    IN  SubSeq(list, 1, i - 1) \o SubSeq(list, i + 1, Len(list))

\* text.startswith(p)
StartsWith(text, p) == Len(text) >= Len(p) /\ SubSeq(text, 1, Len(p)) = p

\* text.split(" "): the pieces between single spaces, empty pieces kept
RECURSIVE Split(_)
Split(text) ==
    IF \A i \in 1..Len(text) : text[i] # " "
    THEN <<text>>
    ELSE LET i == CHOOSE k \in 1..Len(text) :
                      /\ text[k] = " "
                      /\ \A j \in 1..(k - 1) : text[j] # " "
         IN  <<SubSeq(text, 1, i - 1)>> \o Split(SubSeq(text, i + 1, Len(text)))

\* SPELLCHECKER.unknown(words): the set of words the dictionary does not know
unknown(words) == { words[i] : i \in 1..Len(words) } \ KnownWords

\* SPELLCHECKER.correction(word) is None
NoCorrection(word) == word \notin DOMAIN Candidates

correction(word) == Candidates[word]

----------------------------------------------------------------------------
(* Persistence *)

NoFile == [exists |-> FALSE, users |-> <<>>]

\* load_ignore_users: [] when the file is missing
load_ignore_users(f) == IF f.exists THEN f.users ELSE <<>>

\* save_ignore_users: overwrite the file with {"ignore-users": ignore_users}
save_ignore_users(ignore_users) == [exists |-> TRUE, users |-> ignore_users]

\* the files a start can find: none, or one saved by an earlier run
InitFiles == {NoFile, save_ignore_users(<<"u1", "u2">>)}

----------------------------------------------------------------------------
(* The record of one handler step *)

Reply(kind) == [kind |-> kind, words |-> {}]

MustBeMod == Reply("You must be a mod to use that command!")

\* the step before any guard has run
Call(handler, user, role, text) ==
    [handler |-> handler,
     step |-> "call",
     user |-> user,
     role |-> role,
     text |-> text,
     enabled |-> BOT_ENABLE,       \* BOT_ENABLE when the step began
     before |-> IGNORE_USERS,      \* IGNORE_USERS when the step began
     list |-> IGNORE_USERS,        \* IGNORE_USERS when the step ends
     replies |-> <<>>,             \* replies sent by the step
     outcome |-> "returned",       \* returned | error | suspended | blocked
     ran |-> FALSE,                \* the handler body was entered
     spell |-> FALSE,              \* SPELLCHECKER was invoked
     holds |-> FALSE,              \* the coroutine holds the lock as the step ends
     access |-> {},                \* accesses to IGNORE_USERS: [op, held]
     follows_ignore |-> FALSE,     \* a listen right after a completed ignore of the same user
     origin |-> <<>>,              \* then: the list before that ignore
     guards |-> <<>>,              \* the guards evaluated, in order
     line_replies |-> 0,           \* replies sent so far for the chat line of this step
     overlap |-> FALSE,            \* enable / disable resumed while the other was suspended
     raced |-> FALSE]              \* resumed right after the other's resume with overlap

NoStep == [Call("none", "none", "none", <<>>) EXCEPT !.step = "none", !.outcome = "none"]

Access(op, held) == [op |-> op, held |-> held]

----------------------------------------------------------------------------
(* Guards: each decorator either ends the step or gives way to the wrapped  *)
(* function, whose result is `inner`.                                       *)

bot_enabled_skipped(ev, inner) == inner

bot_enabled_silent(ev, inner) ==
    IF ~BOT_ENABLE
    THEN [ev EXCEPT !.guards = <<"bot_enabled">>]
    ELSE [inner EXCEPT !.guards = <<"bot_enabled">> \o @]

\* raise RuntimeError unless BOT_ENABLE.is_set()
bot_enabled(ev, inner) ==
    IF ~BOT_ENABLE
    THEN [ev EXCEPT !.outcome = "error", !.guards = <<"bot_enabled">>]
    ELSE [inner EXCEPT !.guards = <<"bot_enabled">> \o @]

user_is_mod_skipped(ev, inner) == inner

user_is_mod_no_raise(ev, inner) ==
    IF ev.role = "broadcaster" \/ ev.role = "mod"
    THEN [inner EXCEPT !.guards = <<"user_is_mod">> \o @]
    ELSE [inner EXCEPT !.replies = <<MustBeMod>> \o @,
                       !.guards = <<"user_is_mod">> \o @]

\* broadcaster badge or mod flag, else reply and raise RuntimeError
user_is_mod(ev, inner) ==
    IF ev.role = "broadcaster" \/ ev.role = "mod"
    THEN [inner EXCEPT !.guards = <<"user_is_mod">> \o @]
    ELSE [ev EXCEPT !.replies = Append(@, MustBeMod), !.outcome = "error",
                    !.guards = <<"user_is_mod">>]

user_not_ignored_skipped(ev, inner) == inner

\* raise RuntimeError if user.id in IGNORE_USERS (read without the lock)
user_not_ignored(ev, inner) ==
    IF Contains(IGNORE_USERS, ev.user)
    THEN [ev EXCEPT !.outcome = "error",
                    !.access = @ \cup {Access("read", FALSE)},
                    !.guards = <<"user_not_ignored">>]
    ELSE [inner EXCEPT !.access = @ \cup {Access("read", FALSE)},
                       !.guards = <<"user_not_ignored">> \o @]

not_command_slash(ev, inner) ==
    IF StartsWith(ev.text, <<"/">>) THEN ev ELSE inner

\* return without calling the handler if message.text.startswith("!")
not_command(ev, inner) ==
    IF StartsWith(ev.text, <<"!">>)
    THEN [ev EXCEPT !.guards = <<"not_command">>]
    ELSE [inner EXCEPT !.guards = <<"not_command">> \o @]

----------------------------------------------------------------------------
(* Handler bodies up to their first suspension *)

on_message_body_unfiltered(ev) ==
    LET message_words == Split(ev.text)
        misspelled == unknown(message_words)
        corrections == { [word |-> w, correction |-> correction(w)] :
                            w \in { x \in misspelled : ~NoCorrection(x) } }
        checked == [ev EXCEPT !.ran = TRUE, !.spell = TRUE]
    IN  IF Cardinality(misspelled) > 0
        THEN [checked EXCEPT
                 !.replies = Append(@, [kind |-> "Uh-oh, looks like you misspelled",
                                        words |-> corrections])]
        ELSE checked

\* on_message: the spellcheck of one message
on_message_body(ev) ==
    LET message_words == Split(ev.text)
        misspelled == unknown(message_words)
        corrections == { [word |-> w, correction |-> correction(w)] :
                            w \in { x \in misspelled : ~NoCorrection(x) } }
        checked == [ev EXCEPT !.ran = TRUE, !.spell = TRUE]
    IN  IF Cardinality(misspelled) > 0 /\ corrections # {}
        THEN [checked EXCEPT
                 !.replies = Append(@, [kind |-> "Uh-oh, looks like you misspelled",
                                        words |-> corrections])]
        ELSE checked

on_about_body(ev) ==
    [ev EXCEPT !.ran = TRUE, !.replies = Append(@, Reply("I am a bot!"))]

\* on_enable / on_disable: reply, and suspend before the flag is written
on_enable_body(ev) ==
    [ev EXCEPT !.ran = TRUE,
               !.replies = Append(@, Reply("Clippy will start being anoying now!")),
               !.outcome = "suspended"]

on_disable_body(ev) ==
    [ev EXCEPT !.ran = TRUE,
               !.replies = Append(@, Reply("Clippy will stop being anoying")),
               !.outcome = "suspended"]

\* on_list: acquire, then suspend in twitch.get_users with the lock held
on_list_body(ev) ==
    IF IGNORE_USERS_LCK
    THEN [ev EXCEPT !.ran = TRUE, !.outcome = "blocked"]
    ELSE [ev EXCEPT !.ran = TRUE,
                    !.holds = TRUE,
                    !.access = @ \cup {Access("read", TRUE)},
                    !.outcome = "suspended"]

\* on_ignore: acquire, append, release, reply
on_ignore_body(ev) ==
    IF IGNORE_USERS_LCK
    THEN [ev EXCEPT !.ran = TRUE, !.outcome = "blocked"]
    ELSE [ev EXCEPT !.ran = TRUE,
                    !.list = Append(IGNORE_USERS, ev.user),
                    !.access = @ \cup {Access("write", TRUE)},
                    !.replies = Append(@, Reply("Ok! I won't bother you anymore!"))]

remove_all(list, x) == SelectSeq(list, LAMBDA y : y # x)

\* IGNORE_USERS.remove(cmd.user.id)
remove_user(list, x) == ListRemove(list, x)

\* on_listen: acquire, remove (ValueError when absent, the lock stays held),
\* release, reply
on_listen_body(ev) ==
    LET seq == [ev EXCEPT
                   !.follows_ignore = /\ last.handler = "on_ignore"
                                      /\ last.outcome = "returned"
                                      /\ last.user = ev.user,
                   !.origin = IF /\ last.handler = "on_ignore"
                                 /\ last.outcome = "returned"
                                 /\ last.user = ev.user
                              THEN last.before ELSE <<>>]
    IN
    IF IGNORE_USERS_LCK
    THEN [seq EXCEPT !.ran = TRUE, !.outcome = "blocked"]
    ELSE IF ~Contains(IGNORE_USERS, ev.user)
    THEN [seq EXCEPT !.ran = TRUE,
                     !.holds = TRUE,
                     !.access = @ \cup {Access("write", TRUE)},
                     !.outcome = "error"]
    ELSE [seq EXCEPT !.ran = TRUE,
                     !.list = remove_user(IGNORE_USERS, ev.user),
                     !.access = @ \cup {Access("write", TRUE)},
                     !.replies = Append(@, Reply("Ok! I'll be sure to suggest corrections for you again!"))]

----------------------------------------------------------------------------
(* The chat thread *)

\* handlers are called once chat.start() has run and until chat.stop()
ChatRunning == main \in {"running", "finally"} /\ ~hung

\* a suspended coroutine
Task(r) == [handler |-> r.handler, holds |-> r.holds, sent |-> r.line_replies]

\* @bot_enabled @not_command @user_not_ignored: the call of on_message
message_handler(user, text) ==
    LET ev == Call("on_message", user, "none", text)
    IN  bot_enabled(ev, not_command(ev, user_not_ignored(ev, on_message_body(ev))))

\* the handler whose write of BOT_ENABLE would undo that of `handler`
Opposite(handler) ==
    IF handler = "on_enable" THEN "on_disable"
    ELSE IF handler = "on_disable" THEN "on_enable"
    ELSE "none"

\* the step r of a handler call as Chat dispatches it: a command line is
\* first handed to the MESSAGE handler (on_message, which neither suspends
\* nor changes the state on a text that starts with "!"), then to its
\* command handler
Dispatched(r) ==
    [r EXCEPT
        !.line_replies =
            IF r.handler = "on_message"
            THEN Len(r.replies)
            ELSE Len(message_handler(r.user, r.text).replies) + Len(r.replies)]

\* the effect of a first step r on the state
Handle(r) ==
    /\ ChatRunning
    /\ r.outcome = "suspended" => BagCardinality(tasks) < MaxTasks
    /\ last' = Dispatched(r)
    /\ IGNORE_USERS' = r.list
    /\ IGNORE_USERS_LCK' = (IGNORE_USERS_LCK \/ r.holds)
    /\ tasks' = IF r.outcome = "suspended"
                THEN tasks (+) SetToBag({Task(Dispatched(r))})
                ELSE tasks
    /\ hung' = (r.outcome = "blocked")
    /\ UNCHANGED <<BOT_ENABLE, main, file, saves, writer>>

\* the MESSAGE event of a chat line
on_message ==
    \E user \in Users, text \in Texts :
        Handle(message_handler(user, text))

\* @bot_enabled
on_about ==
    \E user \in Users :
        LET ev == Call("on_about", user, "none", CommandLine("on_about"))
        IN  Handle(bot_enabled(ev, on_about_body(ev)))

\* @user_is_mod
on_enable ==
    \E user \in Users, role \in Roles :
        LET ev == Call("on_enable", user, role, CommandLine("on_enable"))
        IN  Handle(user_is_mod(ev, on_enable_body(ev)))

\* @user_is_mod
on_disable ==
    \E user \in Users, role \in Roles :
        LET ev == Call("on_disable", user, role, CommandLine("on_disable"))
        IN  Handle(user_is_mod(ev, on_disable_body(ev)))

on_list_mod_first ==
    \E user \in Users, role \in Roles :
        LET ev == Call("on_list", user, role, CommandLine("on_list"))
        IN  Handle(user_is_mod(ev, bot_enabled(ev, on_list_body(ev))))

\* @bot_enabled @user_is_mod
on_list ==
    \E user \in Users, role \in Roles :
        LET ev == Call("on_list", user, role, CommandLine("on_list"))
        IN  Handle(bot_enabled(ev, user_is_mod(ev, on_list_body(ev))))

on_ignore_unguarded ==
    \E user \in Users :
        LET ev == Call("on_ignore", user, "none", CommandLine("on_ignore"))
        IN  /\ Len(IGNORE_USERS) < MaxIgnore
            /\ Handle(on_ignore_body(ev))

\* @bot_enabled
on_ignore ==
    \E user \in Users :
        LET ev == Call("on_ignore", user, "none", CommandLine("on_ignore"))
        IN  /\ Len(IGNORE_USERS) < MaxIgnore
            /\ Handle(bot_enabled(ev, on_ignore_body(ev)))

\* @bot_enabled
on_listen ==
    \E user \in Users :
        LET ev == Call("on_listen", user, "none", CommandLine("on_listen"))
        IN  Handle(bot_enabled(ev, on_listen_body(ev)))

\* the step that resumes a suspended coroutine t and runs it to its end
Resume(t, r) ==
    /\ ChatRunning
    /\ BagIn(t, tasks)
    /\ tasks' = tasks (-) SetToBag({t})
    /\ last' = [r EXCEPT
                   !.line_replies = t.sent + Len(r.replies),
                   !.overlap = \E o \in BagToSet(tasks) : o.handler = Opposite(r.handler),
                   !.raced = /\ last.step = "resume"
                             /\ last.handler = Opposite(r.handler)
                             /\ last.overlap]
    /\ UNCHANGED <<IGNORE_USERS, hung, main, file, saves>>

Resumed(handler) ==
    [Call(handler, "none", "none", CommandLine(handler)) EXCEPT !.step = "resume", !.ran = TRUE]

\* the suspended coroutines of a handler
Suspended(handler) == { t \in BagToSet(tasks) : t.handler = handler }

enable_write_toggles == ~BOT_ENABLE

\* BOT_ENABLE.set()
enable_write == TRUE

\* on_enable after its reply: BOT_ENABLE.set()
on_enable_resume ==
    \E t \in Suspended("on_enable") :
        /\ Resume(t, Resumed("on_enable"))
        /\ BOT_ENABLE' = enable_write
        /\ writer' = "set"
        /\ UNCHANGED IGNORE_USERS_LCK

\* on_disable after its reply: BOT_ENABLE.clear()
on_disable_resume ==
    \E t \in Suspended("on_disable") :
        /\ Resume(t, Resumed("on_disable"))
        /\ BOT_ENABLE' = FALSE
        /\ writer' = "clear"
        /\ UNCHANGED IGNORE_USERS_LCK

\* on_list after the user lookup: release, reply
on_list_resume ==
    \E t \in Suspended("on_list") :
        /\ Resume(t, [Resumed("on_list") EXCEPT !.replies = Append(@, Reply("Ignored users:"))])
        /\ IGNORE_USERS_LCK' = FALSE
        /\ UNCHANGED <<BOT_ENABLE, writer>>

\* on_list when the user lookup raises: the release is never reached
on_list_lookup_fails ==
    \E t \in Suspended("on_list") :
        /\ Resume(t, [Resumed("on_list") EXCEPT !.outcome = "error", !.holds = TRUE])
        /\ UNCHANGED <<BOT_ENABLE, IGNORE_USERS_LCK, writer>>

----------------------------------------------------------------------------
(* The main thread: amain *)

\* load the ignore list under the lock, register the handlers, set BOT_ENABLE,
\* start the chat
startup ==
    /\ main = "startup"
    /\ IGNORE_USERS' = load_ignore_users(file)
    /\ BOT_ENABLE' = TRUE
    /\ main' = "running"
    /\ writer' = "set"
    /\ UNCHANGED <<IGNORE_USERS_LCK, tasks, hung, file, saves, last>>

\* the busy loop is interrupted: control enters the finally block
interrupt ==
    /\ main = "running"
    /\ main' = "finally"
    /\ UNCHANGED <<BOT_ENABLE, IGNORE_USERS, IGNORE_USERS_LCK, tasks, hung, file, saves, writer, last>>

\* finally: acquire (blocks while the lock is held), save, release, chat.stop()
finally_save ==
    /\ main = "finally"
    /\ ~IGNORE_USERS_LCK
    /\ file' = save_ignore_users(IGNORE_USERS)
    /\ saves' = saves + 1
    /\ main' = "stopped"
    /\ UNCHANGED <<BOT_ENABLE, IGNORE_USERS, IGNORE_USERS_LCK, tasks, hung, writer, last>>

----------------------------------------------------------------------------

Init ==
    /\ BOT_ENABLE = FALSE
    /\ IGNORE_USERS = <<>>
    /\ IGNORE_USERS_LCK = FALSE
    /\ tasks = EmptyBag
    /\ hung = FALSE
    /\ main = "startup"
    /\ file \in InitFiles
    /\ saves = 0
    /\ writer = "none"
    /\ last = NoStep

Next ==
    \/ startup
    \/ on_message
    \/ on_about
    \/ on_enable
    \/ on_disable
    \/ on_list
    \/ on_ignore
    \/ on_listen
    \/ on_enable_resume
    \/ on_disable_resume
    \/ on_list_resume
    \/ on_list_lookup_fails
    \/ interrupt
    \/ finally_save

Spec == Init /\ [][Next]_vars

\* the main thread proceeds when its acquire can succeed, and an await on the
\* transport (a reply, the user lookup) ends, with a result or an error
FairSpec ==
    /\ Spec
    /\ WF_vars(finally_save)
    /\ WF_vars(on_enable_resume)
    /\ WF_vars(on_disable_resume)
    /\ WF_vars(on_list_resume \/ on_list_lookup_fails)

----------------------------------------------------------------------------
(* Properties *)

TehText == <<"t", "e", "h">>

IsSpellcheckReply(r) == r.kind = "Uh-oh, looks like you misspelled"

\* number of entries of list equal to x
Count(list, x) == Cardinality({ i \in 1..Len(list) : list[i] = x })

\* C1: a message handled by on_message while BOT_ENABLE is not set gets no
\* reply, whatever its text and author.
C1_DisabledNoReply ==
    (last.handler = "on_message" /\ ~last.enabled) => last.replies = <<>>

\* a misspelled message of a user who is not ignored was handled while disabled
C1_Witness ==
    /\ last.handler = "on_message"
    /\ ~last.enabled
    /\ last.text = TehText
    /\ ~Contains(last.before, last.user)

\* C2: a message whose author is in the ignore list when it is handled gets
\* no spellcheck reply.
C2_IgnoredNoSpellcheck ==
    (last.handler = "on_message" /\ Contains(last.before, last.user))
        => \A i \in 1..Len(last.replies) : ~IsSpellcheckReply(last.replies[i])

\* a misspelled message of an ignored user was handled with the bot enabled
\* and stopped by the guard
C2_Witness ==
    /\ last.handler = "on_message"
    /\ last.enabled
    /\ last.text = TehText
    /\ Contains(last.before, last.user)
    /\ last.outcome = "error"

\* C3: for a message whose text starts with the command prefix "!c ", the
\* spellcheck engine is not invoked and the body of on_message does not run.
C3_PrefixedNotChecked ==
    (last.handler = "on_message" /\ StartsWith(last.text, Prefix))
        => (~last.spell /\ ~last.ran)

\* a prefixed message of a user who is not ignored was handled with the bot
\* enabled: only not_command stands between it and the spellcheck
C3_Witness ==
    /\ last.handler = "on_message"
    /\ StartsWith(last.text, Prefix)
    /\ last.enabled
    /\ ~Contains(last.before, last.user)
    /\ last.outcome = "returned"

\* C4: the ignore list never holds the same user id twice.
C4_NoDuplicates ==
    \A i, j \in 1..Len(IGNORE_USERS) :
        i # j => IGNORE_USERS[i] # IGNORE_USERS[j]

C6_StateFailureReplies ==
    (/\ last.step = "call"
     /\ last.enabled
     /\ \/ last.handler = "on_listen" /\ ~Contains(last.before, last.user)
        \/ last.handler = "on_ignore" /\ Contains(last.before, last.user))
        => (Len(last.replies) >= 1 /\ last.outcome = "returned")

\* C7: no handler is suspended at an await while it holds IGNORE_USERS_LCK.
C7_NoSuspendHoldingLock ==
    \A t \in BagToSet(tasks) : ~t.holds

\* C8: once the main loop is left, the ignore list gets saved, once.
C8_SavedOnceOnShutdown ==
    /\ [](saves <= 1)
    /\ (main = "finally") ~> (saves = 1)

\* C9: every read and write of IGNORE_USERS by a handler happens while the
\* handler holds IGNORE_USERS_LCK.
C9_AccessUnderLock ==
    \A a \in last.access : a.held

\* C10: enable or disable invoked by a user who is neither broadcaster nor
\* mod sends exactly the one reply "You must be a mod to use that command!",
\* does not run the handler body and leaves BOT_ENABLE as it was.
C10_NonModRejected ==
    (last.handler \in {"on_enable", "on_disable"} /\ last.step = "call" /\ last.role = "viewer")
        => /\ last.replies = <<MustBeMod>>
           /\ ~last.ran
           /\ last.outcome = "error"
           /\ BOT_ENABLE = last.enabled

\* a viewer invoked enable while the bot was disabled
C10_Witness ==
    /\ last.handler = "on_enable"
    /\ last.step = "call"
    /\ last.role = "viewer"
    /\ ~last.enabled
    /\ ~BOT_ENABLE

\* the guard chain each handler is declared with, outermost first
DeclaredGuards ==
    [on_message |-> <<"bot_enabled", "not_command", "user_not_ignored">>,
     on_about |-> <<"bot_enabled">>,
     on_enable |-> <<"user_is_mod">>,
     on_disable |-> <<"user_is_mod">>,
     on_list |-> <<"bot_enabled", "user_is_mod">>,
     on_ignore |-> <<"bot_enabled">>,
     on_listen |-> <<"bot_enabled">>]

\* whether a guard lets the call r through, from the call's own inputs
Passes(guard, r) ==
    IF guard = "bot_enabled" THEN r.enabled
    ELSE IF guard = "user_is_mod" THEN r.role \in {"broadcaster", "mod"}
    ELSE IF guard = "not_command" THEN ~StartsWith(r.text, <<"!">>)
    ELSE ~Contains(r.before, r.user)

\* the guards of chain that get evaluated: up to and including the first that fails
RECURSIVE Evaluated(_, _)
Evaluated(chain, r) ==
    IF chain = <<>> THEN <<>>
    ELSE IF Passes(Head(chain), r) THEN <<Head(chain)>> \o Evaluated(Tail(chain), r)
    ELSE <<Head(chain)>>

IsCall == last.step = "call" /\ last.handler # "none"

Privileged(role) == role \in {"broadcaster", "mod"}

\* C11: for every inbound chat line (a plain message, or a command line,
\* which goes to on_message and to its command handler) the bot sends at most
\* one reply in total.
C11_OneReplyPerLine ==
    last.line_replies <= 1

\* a command line of a user who is not ignored got its one reply with the
\* bot enabled: only not_command kept on_message from answering it too
C11_Witness ==
    /\ last.handler = "on_about"
    /\ last.enabled
    /\ ~Contains(last.before, last.user)
    /\ last.line_replies = 1

\* C12: after a listen by u that ended with its confirmation reply, u is not
\* in the ignore list (so u's next misspelled message is answered).
C12_ListenedNotIgnored ==
    (last.handler = "on_listen" /\ last.outcome = "returned" /\ Len(last.replies) = 1)
        => ~Contains(IGNORE_USERS, last.user)

\* C13: the guards of a handler are evaluated in the declared order and the
\* first that fails ends the chain: the body runs only when all have passed,
\* and list by a non-mod with the bot disabled gets no reply and no lookup.
C13_GuardOrder ==
    IsCall =>
        /\ last.guards = Evaluated(DeclaredGuards[last.handler], last)
        /\ last.ran <=> \A i \in 1..Len(DeclaredGuards[last.handler]) :
                            Passes(DeclaredGuards[last.handler][i], last)
        /\ (last.handler = "on_list" /\ ~last.enabled)
               => (last.replies = <<>> /\ last.outcome = "error" /\ last.access = {})

\* list was invoked by a non-mod while the bot was disabled
C13_Witness ==
    /\ IsCall
    /\ last.handler = "on_list"
    /\ last.role = "viewer"
    /\ ~last.enabled

C15_DisabledCommandsInert ==
    (IsCall /\ ~last.enabled) =>
        /\ last.handler \in {"on_about", "on_list", "on_ignore", "on_listen"}
               => (last.replies = <<>> /\ last.line_replies = 0 /\ ~last.ran)
        /\ ~(last.handler \in {"on_enable", "on_disable"} /\ Privileged(last.role))
               => /\ IGNORE_USERS = last.before
                  /\ BOT_ENABLE = last.enabled
                  /\ ~last.holds
                  /\ last.outcome = "error"

\* ignore was invoked with the bot disabled by a user who is not yet ignored
C15_Witness ==
    /\ IsCall
    /\ last.handler = "on_ignore"
    /\ ~last.enabled
    /\ ~Contains(last.before, last.user)
    /\ Len(last.before) < MaxIgnore

\* C16: after startup BOT_ENABLE changes only in the step that resumes
\* on_enable or on_disable after its reply, and such a coroutine exists only
\* for a call by a mod or broadcaster.
C16_FlagOnlyByEnableDisable ==
    [][/\ (main # "startup" /\ BOT_ENABLE' # BOT_ENABLE)
            => /\ last'.step = "resume"
               /\ last'.handler \in {"on_enable", "on_disable"}
               /\ BagCardinality(tasks') < BagCardinality(tasks)
       /\ (/\ BagCardinality(tasks') > BagCardinality(tasks)
           /\ last'.handler \in {"on_enable", "on_disable"})
            => Privileged(last'.role)]_vars

\* on_disable has cleared a flag that was set
C16_Witness ==
    /\ last.step = "resume"
    /\ last.handler = "on_disable"
    /\ last.enabled
    /\ ~BOT_ENABLE

\* the tokens of a text that the dictionary does not know and has a candidate for
Correctable(text) ==
    { w \in { Split(text)[i] : i \in 1..Len(Split(text)) } :
        w \notin KnownWords /\ w \in DOMAIN Candidates }

\* C17: a message that passes the three guards (bot enabled, text not taken
\* for a command, author not ignored) gets a reply if and only if one of its
\* tokens is unknown and has a candidate; the reply names exactly those tokens.
C17_ReplyIffCandidate ==
    (/\ last.handler = "on_message"
     /\ last.enabled
     /\ ~StartsWith(last.text, <<"!">>)
     /\ ~Contains(last.before, last.user))
        => /\ Len(last.replies) = (IF Correctable(last.text) # {} THEN 1 ELSE 0)
           /\ \A i \in 1..Len(last.replies) :
                  /\ IsSpellcheckReply(last.replies[i])
                  /\ { c.word : c \in last.replies[i].words } = Correctable(last.text)

\* a message with one correctable token and one unknown token without a
\* candidate was answered
C17_Witness ==
    /\ last.handler = "on_message"
    /\ last.text = <<"t", "e", "h", " ", "z", "q">>
    /\ Len(last.replies) = 1

\* C18: BOT_ENABLE always holds the value of the write made last, by
\* whichever of on_enable and on_disable resumed last, and every later call
\* reads that value.
C18_LastWriterWins ==
    /\ writer = "set" => BOT_ENABLE
    /\ writer = "clear" => ~BOT_ENABLE
    /\ (last.step = "resume" /\ last.handler = "on_enable") => writer = "set"
    /\ (last.step = "resume" /\ last.handler = "on_disable") => writer = "clear"
    /\ IsCall => last.enabled = BOT_ENABLE

\* an enable and a disable were both suspended after their replies; the
\* disable wrote first, the enable wrote last, and none is left suspended
C18_Witness ==
    /\ last.step = "resume"
    /\ last.handler = "on_enable"
    /\ last.raced
    /\ Suspended("on_enable") = {}
    /\ Suspended("on_disable") = {}
    /\ BOT_ENABLE

\* C19: an invocation of on_list, on_ignore or on_listen that has ended,
\* normally or with an error, does not hold IGNORE_USERS_LCK.
C19_EndedWithoutLock ==
    (/\ last.handler \in {"on_list", "on_ignore", "on_listen"}
     /\ last.outcome \in {"returned", "error"})
        => ~last.holds

====
